---------------------------- MODULE Spec2Model ----------------------------
(*
 * A model of include/boost/json/detail/parse_into.hpp: the tree of
 * converting_handler instantiations below into_handler<V>, driven one parse
 * event at a time.
 *
 * A target type V is a descriptor record (cat, bits, signed, elems, names);
 * the handler tree of a type is a nested record of the handlers' data
 * members, and the Target Value is a nested TLA+ value:
 *   integral / enum   an integer          floating point  an integer counting halves
 *   string-like       a sequence of characters            bool  a BOOLEAN
 *   null-like         the one value "null"
 *   sequence          a sequence          map-like        a function on its keys
 *   tuple / struct    a sequence, one entry per element or member
 *   optional          <<>> (disengaged) or <<x>> (engaged, holding x)
 *
 * A handler method returns Res(h, v, ok, ec, up): the handler's members and
 * its target after the call, the bool it returns, the error it wrote to ec,
 * and the calls it made on parent_ (signal_value / signal_end), in order.
 * The parent runs its signal_value / signal_end for each of them.  In the
 * source those callbacks run inside the child's method; no child writes its
 * target after calling its parent, and no callback reads the child's
 * members, so running them when the child returns gives the same state.
 *)
EXTENDS Integers, Sequences, FiniteSets, TLC

VARIABLES
    T,              \* the target type V of into_handler<V>
    value,          \* the Target Value *v
    inner_,         \* into_handler::inner_, the tree of handlers
    inner_active_,  \* into_handler::inner_active_
    ev,             \* the event of the last call made on into_handler
    ok,             \* what that call returned
    ec,             \* the error that call wrote to ec (NoError: none)
    sigs,           \* the signal_value / signal_end calls it made on into_handler
    fwd,            \* whether it was passed to inner_
    completed,      \* into_handler::signal_value has been called
    ended,          \* on_document_end has been called
    left,           \* events the token source may still deliver
    strict,         \* the token source stops at the first failure, as basic_parser does
    hist            \* the events delivered so far (recorded when strict)

vars ==
    <<T, value, inner_, inner_active_, ev, ok, ec, sigs, fwd, completed, ended,
      left, strict, hist>>

-----------------------------------------------------------------------------
(* Bounds of the model. *)

\* Width of the parser's integers.  std::int64_t and std::uint64_t are 64 bits
\* wide; TLC's integers are 32 bits wide, so the wire is scaled down and the
\* widest integral targets are as wide as the wire.
WireBits == 16

\* Events the token source delivers in the unrestricted specification.
MaxEvents == 4

\* Events it delivers to an integral target in SpecIntegral.
MaxIntegralEvents == 2

\* Events of the array it delivers to a sequence target in SpecSequence.
MaxSequenceEvents == 5

\* Events of the object it delivers to a map target in SpecMap.
MaxMapEvents == 6

\* Events it delivers to a tuple target in SpecTuple.
MaxTupleEvents == 5

\* Events it delivers to an enum or a sequence of enums in SpecEnum.
MaxEnumEvents == 4

\* Events it delivers to a struct target in SpecStruct.
MaxStructEvents == 5

\* Events of the array of arrays it delivers in SpecNested.
MaxNestedEvents == 10

\* Events it delivers in SpecDocument.
MaxDocumentEvents == 5

\* Events it delivers to a composite target in SpecTree.
MaxTreeEvents == 4

\* Events it delivers to an optional or a sequence of optionals in SpecOptional.
MaxOptionalEvents == 5
MaxReuseEvents == 7
MaxTwiceEvents == 8

-----------------------------------------------------------------------------
(* Errors (boost::json::error) and the parent's two callbacks. *)

NoError == "none"
not_integer == "not_integer"
not_double == "not_double"
not_string == "not_string"
not_bool == "not_bool"
not_null == "not_null"
not_exact == "not_exact"
unknown_name == "unknown_name"
not_array == "not_array"
not_object == "not_object"
size_mismatch == "size_mismatch"
extra_data == "extra_data"

signal_value == "signal_value"
signal_end == "signal_end"

Res(h, v, r, e, up) == [h |-> h, v |-> v, ok |-> r, ec |-> e, up |-> up]

\* return true, after calling parent_ as listed in up
Done(h, v, up) == Res(h, v, TRUE, NoError, up)

\* BOOST_JSON_FAIL( ec, E ); return false;
BOOST_JSON_FAIL(h, v, E) == Res(h, v, FALSE, E, <<>>)

-----------------------------------------------------------------------------
(* Events. k is the handler method, n its number or bool, s its text. *)

Event(k, n, s) == [k |-> k, n |-> n, s |-> s]

NoEvent == Event("none", 0, <<>>)

ContentKinds ==
    { "object_begin", "object_end", "array_begin", "array_end", "key_part", "key",
      "string_part", "string", "number_part", "int64", "uint64", "double", "bool",
      "null" }

-----------------------------------------------------------------------------
(* Target types: generic_conversion_category<V> and what the handler of each
   category needs of V. *)

Type(cat, bits, sgn, elems, names) ==
    [cat |-> cat, bits |-> bits, signed |-> sgn, elems |-> elems, names |-> names]

Integral(bits, sgn) == Type("integral", bits, sgn, <<>>, <<>>)
Floating == Type("floating_point", 0, TRUE, <<>>, <<>>)
StringLike == Type("string_like", 0, FALSE, <<>>, <<>>)
Bool == Type("bool", 0, FALSE, <<>>, <<>>)
NullLike == Type("null_like", 0, FALSE, <<>>, <<>>)
\* a described enum: the enumerator named names[i] has the value i
DescribedEnum(names) == Type("described_enum", 0, FALSE, <<>>, names)
SequenceOf(E) == Type("sequence", 0, FALSE, <<E>>, <<>>)
MapOf(E) == Type("map_like", 0, FALSE, <<E>>, <<>>)
TupleOf(elems) == Type("tuple", 0, FALSE, elems, <<>>)
\* a described class: public member i is named names[i] and has type elems[i]
DescribedClass(names, elems) == Type("described_class", 0, FALSE, elems, names)
OptionalOf(E) == Type("optional", 0, FALSE, <<E>>, <<>>)

IsScalar(V) ==
    V.cat \in { "integral", "floating_point", "string_like", "bool", "null_like",
                "described_enum" }

\* std::numeric_limits<V>::min() and max() of an integral V
numeric_limits_min(V) == IF V.signed THEN -(2 ^ (V.bits - 1)) ELSE 0
numeric_limits_max(V) == IF V.signed THEN 2 ^ (V.bits - 1) - 1 ELSE 2 ^ V.bits - 1

\* static_cast<V>( v ) to an integral V: v modulo 2^bits, read as V
static_cast(V, v) ==
    LET m == v % (2 ^ V.bits)
    IN  IF V.signed /\ m >= 2 ^ (V.bits - 1) THEN m - 2 ^ V.bits ELSE m

\* V{}: the value of `V next_value_ = {}`, `*value_ = {}` and `next_value_ = {}`
RECURSIVE Default(_)
Default(V) ==
    CASE V.cat \in {"integral", "floating_point", "described_enum"} -> 0
      [] V.cat = "bool" -> FALSE
      [] V.cat = "null_like" -> "null"
      [] V.cat \in {"string_like", "sequence", "map_like", "optional"} -> <<>>
      [] V.cat \in {"tuple", "described_class"} ->
            [i \in 1..Len(V.elems) |-> Default(V.elems[i])]

\* The members of a handler for V as its constructor leaves them.
RECURSIVE Handler(_)
Handler(V) ==
    CASE V.cat \in {"integral", "floating_point", "string_like", "bool", "null_like"} ->
            [cat |-> V.cat]
      [] V.cat = "described_enum" -> [cat |-> V.cat, name_ |-> <<>>]
      [] V.cat = "sequence" ->
            [cat |-> V.cat, next_value_ |-> Default(V.elems[1]),
             inner_ |-> Handler(V.elems[1]), inner_active_ |-> FALSE]
      [] V.cat = "map_like" ->
            [cat |-> V.cat, key_ |-> <<>>, next_value_ |-> Default(V.elems[1]),
             inner_ |-> Handler(V.elems[1]), inner_active_ |-> FALSE]
      [] V.cat = "tuple" ->
            [cat |-> V.cat, inner_active_ |-> -1,
             handlers_ |-> [i \in 1..Len(V.elems) |-> Handler(V.elems[i])]]
      [] V.cat = "described_class" ->
            [cat |-> V.cat, key_ |-> <<>>, inner_active_ |-> -1,
             handlers_ |-> [i \in 1..Len(V.elems) |-> Handler(V.elems[i])]]
      [] V.cat = "optional" ->
            [cat |-> V.cat, inner_value_ |-> Default(V.elems[1]),
             inner_ |-> Handler(V.elems[1]), inner_active_ |-> FALSE]

-----------------------------------------------------------------------------
(* integral_in_range and the scalar handlers. *)

\* integral_in_range<V>( std::int64_t v ), V signed
integral_in_range_signed(V, v) ==
    v >= numeric_limits_min(V) /\ v <= numeric_limits_max(V)

\* integral_in_range_unsigned without its test of the sign
integral_in_range_unsigned_any_sign(V, v) ==
    v <= numeric_limits_max(V)

\* integral_in_range<V>( std::int64_t v ), V unsigned
integral_in_range_unsigned(V, v) ==
    v >= 0 /\ v <= numeric_limits_max(V)

\* integral_in_range<V>( std::uint64_t v )
integral_in_range_uint64(V, v) ==
    v <= numeric_limits_max(V)

\* scalar_handler::on_array_end
scalar_handler_on_array_end(h, v) == Done(h, v, <<signal_end>>)

\* every method scalar_handler inherits from handler_error_base<E>
handler_error_base(E, h, v, e) ==
    IF e.k = "array_end" THEN scalar_handler_on_array_end(h, v)
    ELSE BOOST_JSON_FAIL(h, v, E)

\* integral_on_int64 storing the number before it tests the range
integral_on_int64_storing(V, h, v, e) ==
    IF ~(IF V.signed THEN integral_in_range_signed(V, e.n)
         ELSE integral_in_range_unsigned(V, e.n))
    THEN BOOST_JSON_FAIL(h, static_cast(V, e.n), not_exact)
    ELSE Done(h, static_cast(V, e.n), <<signal_value>>)

integral_on_int64(V, h, v, e) ==
    IF ~(IF V.signed THEN integral_in_range_signed(V, e.n)
         ELSE integral_in_range_unsigned(V, e.n))
    THEN BOOST_JSON_FAIL(h, v, not_exact)
    ELSE Done(h, static_cast(V, e.n), <<signal_value>>)

integral_on_uint64(V, h, v, e) ==
    IF ~integral_in_range_uint64(V, e.n)
    THEN BOOST_JSON_FAIL(h, v, not_exact)
    ELSE Done(h, static_cast(V, e.n), <<signal_value>>)

\* converting_handler<integral_conversion_tag, V, P>
integral_handler(V, h, v, e) ==
    CASE e.k = "number_part" -> Done(h, v, <<>>)
      [] e.k = "int64" -> integral_on_int64(V, h, v, e)
      [] e.k = "uint64" -> integral_on_uint64(V, h, v, e)
      [] OTHER -> handler_error_base(not_integer, h, v, e)

\* converting_handler<floating_point_conversion_tag, V, P>.  A floating value
\* is counted in halves: static_cast<V> of the integer n is 2n halves.
floating_point_handler(V, h, v, e) ==
    CASE e.k = "number_part" -> Done(h, v, <<>>)
      [] e.k \in {"int64", "uint64"} -> Done(h, 2 * e.n, <<signal_value>>)
      [] e.k = "double" -> Done(h, e.n, <<signal_value>>)
      [] OTHER -> handler_error_base(not_double, h, v, e)

\* string_like_handler calling signal_value for every fragment
string_like_handler_every_fragment(V, h, v, e) ==
    CASE e.k \in {"string_part", "string"} -> Done(h, v \o e.s, <<signal_value>>)
      [] OTHER -> handler_error_base(not_string, h, v, e)

\* converting_handler<string_like_conversion_tag, V, P>
string_like_handler(V, h, v, e) ==
    CASE e.k = "string_part" -> Done(h, v \o e.s, <<>>)
      [] e.k = "string" -> Done(h, v \o e.s, <<signal_value>>)
      [] OTHER -> handler_error_base(not_string, h, v, e)

\* converting_handler<bool_conversion_tag, V, P>
bool_handler(V, h, v, e) ==
    CASE e.k = "bool" -> Done(h, e.n = 1, <<signal_value>>)
      [] OTHER -> handler_error_base(not_bool, h, v, e)

\* null_like_handler deriving from the bool handler's scalar_handler
null_like_handler_not_bool(V, h, v, e) ==
    CASE e.k = "null" -> Done(h, Default(V), <<signal_value>>)
      [] OTHER -> handler_error_base(not_bool, h, v, e)

\* converting_handler<null_like_conversion_tag, V, P>
null_like_handler(V, h, v, e) ==
    CASE e.k = "null" -> Done(h, Default(V), <<signal_value>>)
      [] OTHER -> handler_error_base(not_null, h, v, e)

\* describe::enum_from_string( name, *value_ ): whether name is an enumerator
enum_from_string(V, name) == \E i \in 1..Len(V.names) : V.names[i] = name

\* the value enum_from_string stores for a name it finds
enum_value(V, name) == CHOOSE i \in 1..Len(V.names) : V.names[i] = name

described_enum_on_string(V, h, v, e) ==
    LET name == h.name_ \o e.s
        h1 == [h EXCEPT !.name_ = name]
    IN  IF ~enum_from_string(V, name)
        THEN BOOST_JSON_FAIL(h1, v, unknown_name)
        ELSE Done(h1, enum_value(V, name), <<signal_value>>)

\* converting_handler<described_enum_conversion_tag, V, P>
described_enum_handler(V, h, v, e) ==
    CASE e.k = "string_part" -> Done([h EXCEPT !.name_ = @ \o e.s], v, <<>>)
      [] e.k = "string" -> described_enum_on_string(V, h, v, e)
      [] OTHER -> handler_error_base(not_string, h, v, e)

-----------------------------------------------------------------------------
(* signal_value and signal_end of the composite handlers.  c is the handler
   while one of its methods runs: its members c.h, its target c.v, and the
   calls c.up it has made on its own parent. *)

Call(c, s) == [c EXCEPT !.up = Append(@, s)]

\* composite_handler_signal_end without its call of the parent
composite_handler_signal_end_silent(V, c) ==
    [c EXCEPT !.h.inner_active_ = FALSE]

\* composite_handler_signal_end calling the parent's signal_end
composite_handler_signal_end_ending(V, c) ==
    Call([c EXCEPT !.h.inner_active_ = FALSE], signal_end)

\* composite_handler::signal_end
composite_handler_signal_end(V, c) ==
    Call([c EXCEPT !.h.inner_active_ = FALSE], signal_value)

\* sequence_signal_value inserting at the front
sequence_signal_value_front(V, c) ==
    [c EXCEPT !.v = <<c.h.next_value_>> \o @,
              !.h.next_value_ = Default(V.elems[1])]

\* converting_handler<sequence_conversion_tag>::signal_value
sequence_signal_value(V, c) ==
    [c EXCEPT !.v = Append(@, c.h.next_value_),
              !.h.next_value_ = Default(V.elems[1])]

\* value_->emplace( key, x ): a key the map holds keeps its value
emplace(m, key, x) == IF key \in DOMAIN m THEN m ELSE m @@ (key :> x)

\* converting_handler<map_like_conversion_tag>::signal_value
map_like_signal_value(V, c) ==
    [c EXCEPT !.v = emplace(@, c.h.key_, c.h.next_value_),
              !.h.key_ = <<>>,
              !.h.next_value_ = Default(V.elems[1]),
              !.h.inner_active_ = FALSE]

\* tuple_signal_value advancing by two
tuple_signal_value_twice(V, c) == [c EXCEPT !.h.inner_active_ = @ + 2]

\* converting_handler<tuple_conversion_tag>::signal_value
tuple_signal_value(V, c) == [c EXCEPT !.h.inner_active_ = @ + 1]

\* tuple_signal_end without its call of the parent
tuple_signal_end_silent(V, c) == [c EXCEPT !.h.inner_active_ = -1]

\* converting_handler<tuple_conversion_tag>::signal_end
tuple_signal_end(V, c) == Call([c EXCEPT !.h.inner_active_ = -1], signal_value)

\* described_class_signal_value leaving the key and the index as they are
described_class_signal_value_keeping(V, c) == c

\* converting_handler<described_class_conversion_tag>::signal_value
described_class_signal_value(V, c) ==
    [c EXCEPT !.h.key_ = <<>>, !.h.inner_active_ = -1]

\* converting_handler<described_class_conversion_tag>::signal_end
described_class_signal_end(V, c) ==
    Call([c EXCEPT !.h.key_ = <<>>, !.h.inner_active_ = -1], signal_value)

\* What std::move leaves in inner_value_: an arithmetic, bool or enum value
\* is copied; a moved-from string or container is left empty.
RECURSIVE moved_from(_, _)
moved_from(V, x) ==
    CASE V.cat \in {"string_like", "sequence", "map_like"} -> <<>>
      [] V.cat \in {"tuple", "described_class"} ->
            [i \in 1..Len(V.elems) |-> moved_from(V.elems[i], x[i])]
      [] V.cat = "optional" ->
            IF x = <<>> THEN x ELSE <<moved_from(V.elems[1], x[1])>>
      [] OTHER -> x

\* optional_signal_value calling its parent before and after the move
optional_signal_value_twice(V, c) ==
    Call(Call([c EXCEPT !.v = <<c.h.inner_value_>>,
                        !.h.inner_value_ = moved_from(V.elems[1], @),
                        !.h.inner_active_ = FALSE], signal_value), signal_value)

\* converting_handler<optional_conversion_tag>::signal_value
optional_signal_value(V, c) ==
    Call([c EXCEPT !.v = <<c.h.inner_value_>>,
                   !.h.inner_value_ = moved_from(V.elems[1], @),
                   !.h.inner_active_ = FALSE], signal_value)

\* converting_handler<optional_conversion_tag>::signal_end
optional_signal_end(V, c) == Call(c, signal_end)

\* The handler for V runs the callback s its child called.
Signal(V, c, s) ==
    CASE V.cat = "sequence" /\ s = signal_value -> sequence_signal_value(V, c)
      [] V.cat = "sequence" /\ s = signal_end -> composite_handler_signal_end(V, c)
      [] V.cat = "map_like" /\ s = signal_value -> map_like_signal_value(V, c)
      [] V.cat = "map_like" /\ s = signal_end -> composite_handler_signal_end(V, c)
      [] V.cat = "tuple" /\ s = signal_value -> tuple_signal_value(V, c)
      [] V.cat = "tuple" /\ s = signal_end -> tuple_signal_end(V, c)
      [] V.cat = "described_class" /\ s = signal_value ->
            described_class_signal_value(V, c)
      [] V.cat = "described_class" /\ s = signal_end ->
            described_class_signal_end(V, c)
      [] V.cat = "optional" /\ s = signal_value -> optional_signal_value(V, c)
      [] V.cat = "optional" /\ s = signal_end -> optional_signal_end(V, c)

\* ... for each callback of ss, in the order the child made them
RECURSIVE Signals(_, _, _)
Signals(V, c, ss) ==
    IF ss = <<>> THEN c ELSE Signals(V, Signal(V, c, Head(ss)), Tail(ss))

\* return inner_.f: the members, the target and the calls made on the parent
\* are as the child's callbacks c left them, the value returned and the
\* error are the child's
Answer(c, r) == Res(c.h, c.v, r.ok, r.ec, c.up)

\* Returned answering true whatever its child returned
Returned_true(V, h, v, r) ==
    LET c == Signals(V, [h |-> h, v |-> v, up |-> <<>>], r.up)
    IN  Res(c.h, c.v, TRUE, NoError, c.up)

\* What the method of the handler for V returns once its child r has returned
\* into members h and target v.
Returned(V, h, v, r) ==
    Answer(Signals(V, [h |-> h, v |-> v, up |-> <<>>], r.up), r)

-----------------------------------------------------------------------------
(* The composite handlers.  Handle(V, h, v, e) is the method for event e of
   the handler for V with members h and target v. *)

RECURSIVE Handle(_, _, _, _)

\* return inner_.f of a composite_handler or of the optional handler:
\* inner_ converts into next_value_ / inner_value_
composite_returned(V, h, v, r) ==
    Returned(V, [h EXCEPT !.inner_ = r.h, !.next_value_ = r.v], v, r)

composite_inner(V, h, v, e) ==
    composite_returned(V, h, v, Handle(V.elems[1], h.inner_, h.next_value_, e))

optional_returned(V, h, v, r) ==
    Returned(V, [h EXCEPT !.inner_ = r.h, !.inner_value_ = r.v], v, r)

optional_inner(V, h, v, e) ==
    optional_returned(V, h, v, Handle(V.elems[1], h.inner_, h.inner_value_, e))

\* mp_with_index<N>( inner_active_, ... get<I>( handlers_ ).fn ) of the tuple
\* and described class handlers: handler I converts into element I of *value_
handlers_returned(V, h, v, i, r) ==
    Returned(V, [h EXCEPT !.handlers_[i] = r.h], [v EXCEPT ![i] = r.v], r)

handlers_inner(V, h, v, e) ==
    handlers_returned(V, h, v, h.inner_active_ + 1,
        Handle(V.elems[h.inner_active_ + 1], h.handlers_[h.inner_active_ + 1],
               v[h.inner_active_ + 1], e))

\* BOOST_JSON_INVOKE_INNER of composite_handler<D, V, P, E>
composite_handler_invoke_inner(E, V, h, v, e) ==
    IF ~h.inner_active_ THEN BOOST_JSON_FAIL(h, v, E)
    ELSE composite_inner(V, h, v, e)

\* sequence_on_array_begin emptying *value_ as it opens the array
sequence_on_array_begin_clearing(V, h, v, e) ==
    IF h.inner_active_ THEN composite_inner(V, h, v, e)
    ELSE Done([h EXCEPT !.inner_active_ = TRUE], <<>>, <<>>)

sequence_on_array_begin(V, h, v, e) ==
    IF h.inner_active_ THEN composite_inner(V, h, v, e)
    ELSE Done([h EXCEPT !.inner_active_ = TRUE], v, <<>>)

sequence_on_array_end(V, h, v, e) ==
    IF h.inner_active_ THEN composite_inner(V, h, v, e)
    ELSE Done(h, v, <<signal_end>>)

\* converting_handler<sequence_conversion_tag, V, P>
sequence_handler(V, h, v, e) ==
    CASE e.k = "array_begin" -> sequence_on_array_begin(V, h, v, e)
      [] e.k = "array_end" -> sequence_on_array_end(V, h, v, e)
      [] OTHER -> composite_handler_invoke_inner(not_array, V, h, v, e)

map_like_on_object_begin(V, h, v, e) ==
    IF h.inner_active_ THEN composite_inner(V, h, v, e)
    ELSE Done(h, v, <<>>)

map_like_on_object_end(V, h, v, e) ==
    IF h.inner_active_ THEN composite_inner(V, h, v, e)
    ELSE Done(h, v, <<signal_value>>)

\* map_like_on_array_end calling the parent's signal_value
map_like_on_array_end_value(V, h, v, e) ==
    IF h.inner_active_ THEN composite_inner(V, h, v, e)
    ELSE Done(h, v, <<signal_value>>)

map_like_on_array_end(V, h, v, e) ==
    IF h.inner_active_ THEN composite_inner(V, h, v, e)
    ELSE Done(h, v, <<signal_end>>)

map_like_on_key_part(V, h, v, e) ==
    IF h.inner_active_ THEN composite_inner(V, h, v, e)
    ELSE Done([h EXCEPT !.key_ = @ \o e.s], v, <<>>)

map_like_on_key(V, h, v, e) ==
    IF h.inner_active_ THEN composite_inner(V, h, v, e)
    ELSE Done([h EXCEPT !.key_ = @ \o e.s, !.inner_active_ = TRUE], v, <<>>)

\* converting_handler<map_like_conversion_tag, V, P>
map_like_handler(V, h, v, e) ==
    CASE e.k = "object_begin" -> map_like_on_object_begin(V, h, v, e)
      [] e.k = "object_end" -> map_like_on_object_end(V, h, v, e)
      [] e.k = "array_end" -> map_like_on_array_end(V, h, v, e)
      [] e.k = "key_part" -> map_like_on_key_part(V, h, v, e)
      [] e.k = "key" -> map_like_on_key(V, h, v, e)
      [] OTHER -> composite_handler_invoke_inner(not_object, V, h, v, e)

\* BOOST_JSON_INVOKE_INNER of the tuple handler; N is std::tuple_size<T>
tuple_invoke_inner(V, h, v, e) ==
    CASE h.inner_active_ < 0 -> BOOST_JSON_FAIL(h, v, not_array)
      [] h.inner_active_ >= Len(V.elems) -> BOOST_JSON_FAIL(h, v, size_mismatch)
      [] OTHER -> handlers_inner(V, h, v, e)

tuple_on_array_begin(V, h, v, e) ==
    CASE h.inner_active_ < 0 -> Done([h EXCEPT !.inner_active_ = 0], v, <<>>)
      [] h.inner_active_ >= Len(V.elems) ->
            Done([h EXCEPT !.inner_active_ = 0], v, <<>>)
      [] OTHER -> handlers_inner(V, h, v, e)

tuple_on_array_end(V, h, v, e) ==
    CASE h.inner_active_ < 0 -> Done(h, v, <<signal_end>>)
      [] h.inner_active_ >= Len(V.elems) ->
            Done([h EXCEPT !.inner_active_ = -1], v, <<signal_value>>)
      [] OTHER -> handlers_inner(V, h, v, e)

\* converting_handler<tuple_conversion_tag, T, P>
tuple_handler(V, h, v, e) ==
    CASE e.k = "array_begin" -> tuple_on_array_begin(V, h, v, e)
      [] e.k = "array_end" -> tuple_on_array_end(V, h, v, e)
      [] OTHER -> tuple_invoke_inner(V, h, v, e)

\* described_class_invoke_inner failing with the tuple's error
described_class_invoke_inner_not_array(V, h, v, e) ==
    IF h.inner_active_ < 0 THEN BOOST_JSON_FAIL(h, v, not_array)
    ELSE handlers_inner(V, h, v, e)

\* BOOST_JSON_INVOKE_INNER of the described class handler
described_class_invoke_inner(V, h, v, e) ==
    IF h.inner_active_ < 0 THEN BOOST_JSON_FAIL(h, v, not_object)
    ELSE handlers_inner(V, h, v, e)

described_class_on_object_begin(V, h, v, e) ==
    IF h.inner_active_ < 0 THEN Done(h, v, <<>>)
    ELSE described_class_invoke_inner(V, h, v, e)

\* described_class_on_object_end completing without telling its parent
described_class_on_object_end_silent(V, h, v, e) ==
    IF h.inner_active_ < 0 THEN Done(h, v, <<>>)
    ELSE described_class_invoke_inner(V, h, v, e)

described_class_on_object_end(V, h, v, e) ==
    IF h.inner_active_ < 0 THEN Done(h, v, <<signal_value>>)
    ELSE described_class_invoke_inner(V, h, v, e)

described_class_on_array_end(V, h, v, e) ==
    IF h.inner_active_ < 0 THEN Done(h, v, <<signal_end>>)
    ELSE described_class_invoke_inner(V, h, v, e)

described_class_on_key_part(V, h, v, e) ==
    IF h.inner_active_ < 0 THEN Done([h EXCEPT !.key_ = @ \o e.s], v, <<>>)
    ELSE described_class_invoke_inner(V, h, v, e)

\* mp_for_each<Dm>: inner_active_ = i for every member i named key; the last
\* such member stays, and inner_active_ is left as it was when there is none
member_named(V, key, was) ==
    LET found == { i \in 1..Len(V.names) : V.names[i] = key }
    IN  IF found = {} THEN was
        ELSE (CHOOSE i \in found : \A j \in found : j <= i) - 1

\* described_class_on_key skipping a key that names no member
described_class_on_key_lenient(V, h, v, e) ==
    IF h.inner_active_ >= 0 THEN described_class_invoke_inner(V, h, v, e)
    ELSE LET key == h.key_ \o e.s
             i == member_named(V, key, h.inner_active_)
         IN  Done([h EXCEPT !.key_ = IF i < 0 THEN <<>> ELSE key,
                            !.inner_active_ = i], v, <<>>)

described_class_on_key(V, h, v, e) ==
    IF h.inner_active_ >= 0 THEN described_class_invoke_inner(V, h, v, e)
    ELSE LET key == h.key_ \o e.s
             i == member_named(V, key, h.inner_active_)
             h1 == [h EXCEPT !.key_ = key, !.inner_active_ = i]
         IN  IF i < 0 THEN BOOST_JSON_FAIL(h1, v, unknown_name)
             ELSE Done(h1, v, <<>>)

\* converting_handler<described_class_conversion_tag, V, P>
described_class_handler(V, h, v, e) ==
    CASE e.k = "object_begin" -> described_class_on_object_begin(V, h, v, e)
      [] e.k = "object_end" -> described_class_on_object_end(V, h, v, e)
      [] e.k = "array_end" -> described_class_on_array_end(V, h, v, e)
      [] e.k = "key_part" -> described_class_on_key_part(V, h, v, e)
      [] e.k = "key" -> described_class_on_key(V, h, v, e)
      [] OTHER -> described_class_invoke_inner(V, h, v, e)

\* BOOST_JSON_INVOKE_INNER of the optional handler
optional_invoke_inner(V, h, v, e) ==
    optional_inner(V, [h EXCEPT !.inner_active_ = TRUE], v, e)

optional_on_array_end(V, h, v, e) ==
    IF ~h.inner_active_
    THEN Returned(V, h, v, Done(h, v, <<signal_end>>))
    ELSE optional_invoke_inner(V, h, v, e)

\* optional_on_null without its `*value_ = {}`
optional_on_null_keeping(V, h, v, e) ==
    IF ~h.inner_active_ THEN Done(h, v, <<signal_value>>)
    ELSE optional_inner(V, h, v, e)

\* optional_on_null with its `*value_ = {}` before the test of inner_active_
optional_on_null_emptying(V, h, v, e) ==
    IF ~h.inner_active_ THEN Done(h, <<>>, <<signal_value>>)
    ELSE optional_inner(V, h, <<>>, e)

optional_on_null(V, h, v, e) ==
    IF ~h.inner_active_ THEN Done(h, <<>>, <<signal_value>>)
    ELSE optional_inner(V, h, v, e)

\* converting_handler<optional_conversion_tag, V, P>
optional_handler(V, h, v, e) ==
    CASE e.k = "array_end" -> optional_on_array_end(V, h, v, e)
      [] e.k = "null" -> optional_on_null(V, h, v, e)
      [] OTHER -> optional_invoke_inner(V, h, v, e)

\* get_handler<V, P>: the converting_handler of V's conversion category
Handle(V, h, v, e) ==
    CASE V.cat = "integral" -> integral_handler(V, h, v, e)
      [] V.cat = "floating_point" -> floating_point_handler(V, h, v, e)
      [] V.cat = "string_like" -> string_like_handler(V, h, v, e)
      [] V.cat = "bool" -> bool_handler(V, h, v, e)
      [] V.cat = "null_like" -> null_like_handler(V, h, v, e)
      [] V.cat = "described_enum" -> described_enum_handler(V, h, v, e)
      [] V.cat = "sequence" -> sequence_handler(V, h, v, e)
      [] V.cat = "map_like" -> map_like_handler(V, h, v, e)
      [] V.cat = "tuple" -> tuple_handler(V, h, v, e)
      [] V.cat = "described_class" -> described_class_handler(V, h, v, e)
      [] V.cat = "optional" -> optional_handler(V, h, v, e)

-----------------------------------------------------------------------------
(* into_handler<V> and the token source. *)

\* The token source calls a method of into_handler with the event e.
Deliver(e) ==
    /\ left > 0
    /\ strict => ok
    /\ left' = left - 1
    /\ ev' = e
    /\ hist' = IF strict THEN Append(hist, e) ELSE hist
    /\ ended' = (ended \/ e.k = "document_end")
    /\ UNCHANGED <<T, strict>>

\* into_handler_invoke_inner without its test of inner_active_
\* return inner_.f of into_handler: the top-level handler has returned r
into_handler_returned(r) ==
    /\ ok' = r.ok
    /\ ec' = r.ec
    /\ fwd' = TRUE
    /\ sigs' = r.up
    /\ completed' = (completed \/ \E i \in 1..Len(r.up) : r.up[i] = signal_value)
    /\ value' = r.v
    /\ inner_' = r.h

into_handler_invoke_inner_always(e) ==
    /\ into_handler_returned(Handle(T, inner_, value, e))
    /\ UNCHANGED inner_active_

\* BOOST_JSON_INVOKE_INNER of into_handler, for the content event e.
\* into_handler::signal_value and signal_end do nothing: the calls the
\* top-level handler makes on them are only recorded, in sigs.
into_handler_invoke_inner(e) ==
    /\ IF ~inner_active_
       THEN /\ ok' = FALSE
            /\ ec' = extra_data
            /\ fwd' = FALSE
            /\ sigs' = <<>>
            /\ UNCHANGED <<value, inner_, completed>>
       ELSE into_handler_returned(Handle(T, inner_, value, e))
    /\ UNCHANGED inner_active_

\* return true, of the methods into_handler does not pass to inner_
return_true ==
    /\ ok' = TRUE
    /\ ec' = NoError
    /\ fwd' = FALSE
    /\ sigs' = <<>>
    /\ UNCHANGED <<value, inner_, completed>>

\* on_document_begin setting inner_active_, as the comment at the head of
\* the file describes it
on_document_begin_enabling ==
    /\ Deliver(Event("document_begin", 0, <<>>))
    /\ inner_active_' = TRUE
    /\ return_true

on_document_begin ==
    /\ Deliver(Event("document_begin", 0, <<>>))
    /\ return_true
    /\ UNCHANGED inner_active_

on_document_end ==
    /\ Deliver(Event("document_end", 0, <<>>))
    /\ inner_active_' = FALSE
    /\ return_true

on_comment_part ==
    /\ Deliver(Event("comment_part", 0, <<>>))
    /\ return_true
    /\ UNCHANGED inner_active_

\* on_comment ending the document as on_document_end does
on_comment_disabling ==
    /\ Deliver(Event("comment", 0, <<>>))
    /\ inner_active_' = FALSE
    /\ return_true

on_comment ==
    /\ Deliver(Event("comment", 0, <<>>))
    /\ return_true
    /\ UNCHANGED inner_active_

on_object_begin ==
    /\ Deliver(Event("object_begin", 0, <<>>))
    /\ into_handler_invoke_inner(Event("object_begin", 0, <<>>))

on_object_end ==
    /\ Deliver(Event("object_end", 0, <<>>))
    /\ into_handler_invoke_inner(Event("object_end", 0, <<>>))

on_array_begin ==
    /\ Deliver(Event("array_begin", 0, <<>>))
    /\ into_handler_invoke_inner(Event("array_begin", 0, <<>>))

on_array_end ==
    /\ Deliver(Event("array_end", 0, <<>>))
    /\ into_handler_invoke_inner(Event("array_end", 0, <<>>))

on_key_part(S) ==
    \E s \in S :
        /\ Deliver(Event("key_part", 0, s))
        /\ into_handler_invoke_inner(Event("key_part", 0, s))

on_key(S) ==
    \E s \in S :
        /\ Deliver(Event("key", 0, s))
        /\ into_handler_invoke_inner(Event("key", 0, s))

on_string_part(S) ==
    \E s \in S :
        /\ Deliver(Event("string_part", 0, s))
        /\ into_handler_invoke_inner(Event("string_part", 0, s))

on_string(S) ==
    \E s \in S :
        /\ Deliver(Event("string", 0, s))
        /\ into_handler_invoke_inner(Event("string", 0, s))

on_number_part ==
    /\ Deliver(Event("number_part", 0, <<>>))
    /\ into_handler_invoke_inner(Event("number_part", 0, <<>>))

on_int64(N) ==
    \E n \in N :
        /\ Deliver(Event("int64", n, <<>>))
        /\ into_handler_invoke_inner(Event("int64", n, <<>>))

on_uint64(N) ==
    \E n \in N :
        /\ Deliver(Event("uint64", n, <<>>))
        /\ into_handler_invoke_inner(Event("uint64", n, <<>>))

on_double(N) ==
    \E n \in N :
        /\ Deliver(Event("double", n, <<>>))
        /\ into_handler_invoke_inner(Event("double", n, <<>>))

on_bool ==
    \E n \in {0, 1} :
        /\ Deliver(Event("bool", n, <<>>))
        /\ into_handler_invoke_inner(Event("bool", n, <<>>))

on_null ==
    /\ Deliver(Event("null", 0, <<>>))
    /\ into_handler_invoke_inner(Event("null", 0, <<>>))

-----------------------------------------------------------------------------
(* The target types and the values the model is run on. *)

Int8 == Integral(8, TRUE)
UInt8 == Integral(8, FALSE)
\* the integral types as wide as the parser's: std::int64_t and std::uint64_t
Int64 == Integral(WireBits, TRUE)
UInt64 == Integral(WireBits, FALSE)

\* an enum with the enumerators a = 1 and ab = 2
Enum == DescribedEnum(<< <<"a">>, <<"a", "b">> >>)

\* a struct with the members a (integral), ab (string) and b (sequence)
Struct ==
    DescribedClass(<< <<"a">>, <<"a", "b">>, <<"b">> >>,
                   <<Int8, StringLike, SequenceOf(Int8)>>)

ScalarTypes == {Int8, UInt8, Int64, UInt64, Floating, StringLike, Bool, NullLike, Enum}

CompositeTypes ==
    { SequenceOf(Int8), SequenceOf(SequenceOf(Int8)), SequenceOf(Enum),
      SequenceOf(OptionalOf(Int8)), MapOf(Int8), TupleOf(<<Int8, StringLike>>),
      TupleOf(<<SequenceOf(Int8), OptionalOf(Bool)>>), Struct,
      SequenceOf(Struct), OptionalOf(Int8), OptionalOf(SequenceOf(NullLike)) }

\* the texts of key and string events
Texts == { <<"a">>, <<"b">> }

\* the numbers of int64, uint64 and double events
Int64s == { -1, 1, 200 }
UInt64s == { 1, 200 }
Doubles == { 1, 3 }

\* A value of V other than V{}, for a target the caller has filled.
RECURSIVE Sample(_)
Sample(V) ==
    CASE V.cat \in {"integral", "floating_point"} -> 5
      [] V.cat = "described_enum" -> Len(V.names)
      [] V.cat = "bool" -> TRUE
      [] V.cat = "null_like" -> "null"
      [] V.cat = "string_like" -> <<"b">>
      [] V.cat \in {"sequence", "optional"} -> <<Sample(V.elems[1])>>
      [] V.cat = "map_like" -> (<<"b">> :> Sample(V.elems[1]))
      [] V.cat \in {"tuple", "described_class"} ->
            [i \in 1..Len(V.elems) |-> Sample(V.elems[i])]

\* what the caller's target may hold: anything, V{}, or a value other than V{}
AnyValue(V) == {Default(V), Sample(V)}
EmptyValue(V) == {Default(V)}
FilledValue(V) == {Sample(V)}

\* into_handler( V* v ) for a V of Types, and a token source of n events
InitOn(Types, which, n, stops) ==
    /\ T \in Types
    /\ value \in CASE which = "any" -> AnyValue(T)
                  [] which = "empty" -> EmptyValue(T)
                  [] which = "filled" -> FilledValue(T)
    /\ inner_ = Handler(T)
    /\ inner_active_ = TRUE
    /\ ev = NoEvent
    /\ ok = TRUE
    /\ ec = NoError
    /\ sigs = <<>>
    /\ fwd = FALSE
    /\ completed = FALSE
    /\ ended = FALSE
    /\ left = n
    /\ strict = stops
    /\ hist = <<>>

Init == InitOn(ScalarTypes \cup CompositeTypes, "any", MaxEvents, FALSE)

Next ==
    \/ on_document_begin
    \/ on_document_end
    \/ on_comment_part
    \/ on_comment
    \/ on_object_begin
    \/ on_object_end
    \/ on_array_begin
    \/ on_array_end
    \/ on_key_part(Texts)
    \/ on_key(Texts)
    \/ on_string_part(Texts)
    \/ on_string(Texts)
    \/ on_number_part
    \/ on_int64(Int64s)
    \/ on_uint64(UInt64s)
    \/ on_double(Doubles)
    \/ on_bool
    \/ on_null

Spec == Init /\ [][Next]_vars

\* SpecIntegral: the integral targets, and numbers at and next to the limits
\* of every target width, within what std::int64_t and std::uint64_t hold.
Int64Limits ==
    { numeric_limits_min(Int64), numeric_limits_min(Int8) - 1, numeric_limits_min(Int8),
      -1, 0, numeric_limits_max(Int8), numeric_limits_max(Int8) + 1,
      numeric_limits_max(UInt8), numeric_limits_max(UInt8) + 1,
      numeric_limits_max(Int64) }

UInt64Limits ==
    { 0, numeric_limits_max(Int8), numeric_limits_max(Int8) + 1,
      numeric_limits_max(UInt8), numeric_limits_max(UInt8) + 1,
      numeric_limits_max(Int64), numeric_limits_max(Int64) + 1,
      numeric_limits_max(UInt64) }

InitIntegral == InitOn({Int8, UInt8, Int64, UInt64}, "any", MaxIntegralEvents, FALSE)

NextIntegral ==
    \/ on_number_part
    \/ on_int64(Int64Limits)
    \/ on_uint64(UInt64Limits)

SpecIntegral == InitIntegral /\ [][NextIntegral]_vars

\* SpecSequence: an empty sequence of integers and the events of an array of
\* numbers; the token source stops at the first failure.
InitSequence == InitOn({SequenceOf(Int8)}, "empty", MaxSequenceEvents, TRUE)

NextSequence ==
    \/ on_array_begin
    \/ on_array_end
    \/ on_number_part
    \/ on_int64(Int64s)
    \/ on_uint64(UInt64s)

SpecSequence == InitSequence /\ [][NextSequence]_vars

\* SpecMap: an empty map from strings to integers and the events of an
\* object of numbers; the token source stops at the first failure.
InitMap == InitOn({MapOf(Int8)}, "empty", MaxMapEvents, TRUE)

NextMap ==
    \/ on_object_begin
    \/ on_object_end
    \/ on_key_part(Texts)
    \/ on_key(Texts)
    \/ on_int64(Int64s)

SpecMap == InitMap /\ [][NextMap]_vars

\* SpecTuple: tuples of three integers and of an integer and one element of
\* every other category, all filled by the caller; any content event; the
\* token source stops at the first failure.
TupleTypes ==
    { TupleOf(<<Int8, UInt8, Int8>>) } \cup
    { TupleOf(<<Int8, E>>) :
        E \in { StringLike, Enum, SequenceOf(Int8), MapOf(Int8), TupleOf(<<Int8>>),
                Struct, OptionalOf(Bool) } }

InitTuple == InitOn(TupleTypes, "filled", MaxTupleEvents, TRUE)

NextTuple ==
    \/ on_object_begin
    \/ on_object_end
    \/ on_array_begin
    \/ on_array_end
    \/ on_key_part({<<"a">>})
    \/ on_key({<<"a">>})
    \/ on_string_part({<<"a">>})
    \/ on_string({<<"a">>})
    \/ on_number_part
    \/ on_int64(Int64s)
    \/ on_uint64(UInt64s)
    \/ on_double({1})
    \/ on_bool
    \/ on_null

SpecTuple == InitTuple /\ [][NextTuple]_vars

\* SpecEnum: an enum and a sequence of enums, and the events of strings and
\* arrays; the token source stops at the first failure.
InitEnum == InitOn({Enum, SequenceOf(Enum)}, "any", MaxEnumEvents, TRUE)

NextEnum ==
    \/ on_array_begin
    \/ on_array_end
    \/ on_string_part(Texts)
    \/ on_string(Texts)

SpecEnum == InitEnum /\ [][NextEnum]_vars

\* SpecStruct: a struct and the events of an object of numbers, strings and
\* arrays; the token source stops at the first failure.
InitStruct == InitOn({Struct}, "any", MaxStructEvents, TRUE)

NextStruct ==
    \/ on_object_begin
    \/ on_object_end
    \/ on_array_begin
    \/ on_array_end
    \/ on_key_part(Texts)
    \/ on_key(Texts)
    \/ on_string({<<"a">>})
    \/ on_int64({1})

SpecStruct == InitStruct /\ [][NextStruct]_vars

\* SpecDocument: a few targets, and document_begin and document_end among
\* the events of their values; the token source stops at the first failure.
InitDocument ==
    InitOn({Int8, Bool, SequenceOf(Int8)}, "any", MaxDocumentEvents, TRUE)

NextDocument ==
    \/ on_document_begin
    \/ on_document_end
    \/ on_comment
    \/ on_array_begin
    \/ on_array_end
    \/ on_int64({1})
    \/ on_bool

SpecDocument == InitDocument /\ [][NextDocument]_vars

\* SpecTree: the composite targets, with a handler of every category below
\* another handler, and any event.
TreeTypes ==
    CompositeTypes \cup
        { SequenceOf(MapOf(Int8)), SequenceOf(TupleOf(<<Int8, Bool>>)),
          MapOf(Floating) }

InitTree == InitOn(TreeTypes, "any", MaxTreeEvents, FALSE)

NextTree ==
    \/ on_document_end
    \/ on_object_begin
    \/ on_object_end
    \/ on_array_begin
    \/ on_array_end
    \/ on_key_part({<<"a">>})
    \/ on_key(Texts)
    \/ on_string_part({<<"a">>})
    \/ on_string({<<"a">>})
    \/ on_number_part
    \/ on_int64({1, 200})
    \/ on_uint64({1})
    \/ on_double({1})
    \/ on_bool
    \/ on_null

SpecTree == InitTree /\ [][NextTree]_vars

\* SpecNested: an empty sequence of sequences of integers and the events of
\* arrays of numbers; the token source stops at the first failure.
InitNested ==
    InitOn({SequenceOf(SequenceOf(Int8))}, "empty", MaxNestedEvents, TRUE)

NextNested ==
    \/ on_array_begin
    \/ on_array_end
    \/ on_int64({-1, 1})
    \/ on_uint64({200})

SpecNested == InitNested /\ [][NextNested]_vars

\* SpecOptional: optionals of every scalar category and sequences of
\* optionals, and the events of scalars, null and arrays; the token source
\* stops at the first failure.
OptionalTypes ==
    { OptionalOf(E) : E \in {Int8, Floating, StringLike, Bool, Enum} } \cup
    { SequenceOf(OptionalOf(E)) : E \in {Int8, StringLike} } \cup
    { OptionalOf(SequenceOf(OptionalOf(Int8))) }

InitOptional == InitOn(OptionalTypes, "any", MaxOptionalEvents, TRUE)

NextOptional ==
    \/ on_array_begin
    \/ on_array_end
    \/ on_string_part({<<"a">>})
    \/ on_string(Texts)
    \/ on_number_part
    \/ on_int64(Int64s)
    \/ on_double({1})
    \/ on_bool
    \/ on_null

SpecOptional == InitOptional /\ [][NextOptional]_vars

\* SpecReuse: an empty sequence whose one element handler converts every
\* element in turn, for an element of each composite category, and the events
\* of arrays and objects of 1 and null; the token source stops at the first
\* failure.
ReuseTypes ==
    { SequenceOf(E) :
        E \in { SequenceOf(Int8), MapOf(Int8), TupleOf(<<Int8>>), Struct,
                OptionalOf(Int8), OptionalOf(Struct) } }

InitReuse == InitOn(ReuseTypes, "empty", MaxReuseEvents, TRUE)

NextReuse ==
    \/ on_object_begin
    \/ on_object_end
    \/ on_array_begin
    \/ on_array_end
    \/ on_key({<<"a">>})
    \/ on_int64({1})
    \/ on_null

SpecReuse == InitReuse /\ [][NextReuse]_vars

\* a struct with the members a (string) and b (sequence)
StringAndSequence ==
    DescribedClass(<< <<"a">>, <<"b">> >>, <<StringLike, SequenceOf(Int8)>>)

\* SpecTwice: that struct, value-initialised or filled by the caller, and the
\* events of an object that may name a member more than once; the token
\* source stops at the first failure.
InitTwice == InitOn({StringAndSequence}, "any", MaxTwiceEvents, TRUE)

NextTwice ==
    \/ on_object_begin
    \/ on_array_begin
    \/ on_array_end
    \/ on_key(Texts)
    \/ on_string(Texts)
    \/ on_int64({-1, 1})

SpecTwice == InitTwice /\ [][NextTwice]_vars

-----------------------------------------------------------------------------
(* The claims.  In a step of the specification the token source delivers the
   event ev'; unprimed variables are the state before that call. *)

Content == ev'.k \in ContentKinds

\* the call returned false and set the error code to E
FailsWith(E) == ~ok' /\ ec' = E

\* C2 as claimed: once the top-level scalar handler has completed a value
\* (it has called into_handler::signal_value), any further content event
\* fails with extra_data.
C2_ExtraDataAfterScalar ==
    [][IsScalar(T) /\ completed /\ Content => FailsWith(extra_data)]_vars

\* C2, amended: once the top-level scalar handler has completed a value, a
\* further content event fails with extra_data if on_document_end has been
\* called, and is otherwise still passed to the top-level handler.
C2_ExtraDataAfterScalarAndDocumentEnd ==
    [][IsScalar(T) /\ completed /\ Content =>
            IF ended THEN FailsWith(extra_data) /\ ~fwd'
            ELSE fwd' /\ ec' # extra_data]_vars

C2_Witness ==
    /\ IsScalar(T) /\ completed /\ ended
    /\ ev.k \in ContentKinds /\ ~ok /\ ec = extra_data

Accepts(V) ==
    CASE V.cat = "integral" -> {"number_part", "int64", "uint64"}
      [] V.cat = "floating_point" -> {"number_part", "int64", "uint64", "double"}
      [] V.cat \in {"string_like", "described_enum"} -> {"string_part", "string"}
      [] V.cat = "bool" -> {"bool"}
      [] V.cat = "null_like" -> {"null"}

\* the error a scalar category declares for the events it does not accept
DeclaredError(V) ==
    CASE V.cat = "integral" -> not_integer
      [] V.cat = "floating_point" -> not_double
      [] V.cat \in {"string_like", "described_enum"} -> not_string
      [] V.cat = "bool" -> not_bool
      [] V.cat = "null_like" -> not_null

\* C7 as claimed: a scalar top-level handler answers every content event its
\* category does not accept with the category's declared error.
C7_MismatchIsDeclaredError ==
    [][IsScalar(T) /\ ~ended /\ Content /\ ev'.k \notin Accepts(T) =>
            FailsWith(DeclaredError(T))]_vars

\* C7, amended: ... every content event its category does not accept, other
\* than array_end, with the category's declared error and nothing else
\* (no write to the target, no call on the parent); array_end returns true,
\* calls the parent's signal_end and leaves the target as it was.
C7_MismatchIsDeclaredErrorButArrayEnd ==
    [][IsScalar(T) /\ ~ended /\ Content /\ ev'.k \notin Accepts(T) =>
            /\ value' = value
            /\ IF ev'.k = "array_end"
               THEN ok' /\ ec' = NoError /\ sigs' = <<signal_end>>
               ELSE FailsWith(DeclaredError(T)) /\ sigs' = <<>>]_vars

C7_Witness ==
    /\ IsScalar(T) /\ fwd /\ ev.k \in ContentKinds \ (Accepts(T) \cup {"array_end"})
    /\ ~ok /\ ec = DeclaredError(T)

\* C6: an integral target of any width, signed or unsigned, takes the number
\* n of an int64 or uint64 event exactly when n is within the target's limits:
\* the call then stores n and calls the parent's signal_value; otherwise it
\* fails with not_exact, leaves the target as it was and makes no call on
\* the parent.
C6_IntegerRange ==
    [][T.cat = "integral" /\ ~ended /\ ev'.k \in {"int64", "uint64"} =>
            IF numeric_limits_min(T) <= ev'.n /\ ev'.n <= numeric_limits_max(T)
            THEN ok' /\ ec' = NoError /\ value' = ev'.n /\ sigs' = <<signal_value>>
            ELSE FailsWith(not_exact) /\ value' = value /\ sigs' = <<>>]_vars

\* the widest signed target has taken its minimum and then refused its
\* maximum + 1, delivered as uint64
C6_Witness ==
    /\ T = Int64 /\ left = 0 /\ ~ok /\ ec = not_exact
    /\ value = numeric_limits_min(T)
    /\ ev = Event("uint64", numeric_limits_max(T) + 1, <<>>)

-----------------------------------------------------------------------------
(* Claims about whole event streams, read from hist. *)

Last(h) == h[Len(h)]

\* h is array_begin, any integer events within the limits of V, array_end
IsArrayOf(V, h) ==
    /\ Len(h) >= 2
    /\ h[1].k = "array_begin"
    /\ Last(h).k = "array_end"
    /\ \A i \in 2..(Len(h) - 1) :
          /\ h[i].k \in {"int64", "uint64"}
          /\ numeric_limits_min(V) <= h[i].n /\ h[i].n <= numeric_limits_max(V)

\* C8: array_begin, integer events e1..en, array_end delivered to an empty
\* sequence of integers leave it holding e1..en, in that order and with
\* duplicates kept; no call fails, and the last one completes the value.
C8_SequenceOrder ==
    (T = SequenceOf(Int8) /\ IsArrayOf(Int8, hist)) =>
        /\ ok /\ ec = NoError
        /\ value = [i \in 1..(Len(hist) - 2) |-> hist[i + 1].n]
        /\ sigs = <<signal_value>>

\* [1, -1, 1] has been converted: three elements, one twice
C8_Witness ==
    /\ T = SequenceOf(Int8) /\ IsArrayOf(Int8, hist)
    /\ value = <<1, -1, 1>> /\ ok

\* h is object_begin, (key, integer within the limits of V) entries, object_end
IsObjectOf(V, h) ==
    /\ Len(h) >= 2 /\ Len(h) % 2 = 0
    /\ h[1].k = "object_begin"
    /\ Last(h).k = "object_end"
    /\ \A i \in 2..(Len(h) - 1) :
          IF i % 2 = 0 THEN h[i].k = "key"
          ELSE /\ h[i].k = "int64"
               /\ numeric_limits_min(V) <= h[i].n /\ h[i].n <= numeric_limits_max(V)

\* the keys of the entries of h, and the number of the last entry with key
KeysOf(h) == { h[i].s : i \in { j \in 2..(Len(h) - 1) : j % 2 = 0 } }
LastOf(h, key) ==
    LET at == { j \in 2..(Len(h) - 1) : j % 2 = 0 /\ h[j].s = key }
    IN  h[(CHOOSE j \in at : \A l \in at : l <= j) + 1].n

\* C1: object_begin, (key, integer) entries, object_end delivered to an empty
\* map from strings to integers leave every key of the stream mapped to the
\* number of its last occurrence.
C1_MapLastWriteWins ==
    (T = MapOf(Int8) /\ IsObjectOf(Int8, hist)) =>
        /\ ok
        /\ DOMAIN value = KeysOf(hist)
        /\ \A key \in KeysOf(hist) : value[key] = LastOf(hist, key)

\* {"a": 1, "a": -1} has been converted without error and "a" is mapped to 1,
\* the number of its first occurrence
C1_Witness ==
    /\ T = MapOf(Int8) /\ IsObjectOf(Int8, hist) /\ Len(hist) = 6
    /\ hist[2].s = <<"a">> /\ hist[3].n = 1
    /\ hist[4].s = <<"a">> /\ hist[5].n = -1
    /\ ok /\ sigs = <<signal_value>> /\ value = (<<"a">> :> 1)

-----------------------------------------------------------------------------
(* Claims about the tuple handler at the top level: inner_.inner_active_ is
   its index, inner_.handlers_ its elements' handlers. *)

\* the handler h for V is inside no array or object of its own
NoOpenScope(V, h) ==
    CASE V.cat \in {"sequence", "map_like", "optional"} -> ~h.inner_active_
      [] V.cat \in {"tuple", "described_class"} -> h.inner_active_ < 0
      [] OTHER -> TRUE

\* the events that can start a value, as C4 lists them
StartsValue ==
    {"int64", "double", "bool", "null", "string", "key", "object_begin", "array_begin"}

\* C4: once the array of a tuple of N elements has supplied N elements, the
\* first event of one more element fails with size_mismatch, whichever of
\* the listed events it is.
C4_TupleOverflow ==
    [][T.cat = "tuple" /\ ~ended /\ inner_.inner_active_ = Len(T.elems)
         /\ ev'.k \in StartsValue => FailsWith(size_mismatch)]_vars

\* after array_begin and the two elements of a tuple of two, a further
\* array_begin has returned true and put the index back to the first element
C4_Witness ==
    /\ T = TupleOf(<<Int8, StringLike>>) /\ Len(hist) = 4
    /\ hist[1].k = "array_begin" /\ hist[2].k = "int64" /\ hist[3].k = "string"
    /\ ev.k = "array_begin"
    /\ ok /\ ec = NoError /\ inner_.inner_active_ = 0

\* array_end arrives with k < N elements complete and no element begun
ClosesEarly ==
    /\ T.cat = "tuple" /\ ~ended /\ ev'.k = "array_end"
    /\ inner_.inner_active_ >= 0 /\ inner_.inner_active_ < Len(T.elems)
    /\ NoOpenScope(T.elems[inner_.inner_active_ + 1],
                   inner_.handlers_[inner_.inner_active_ + 1])

\* h is array_begin, k < N integers within the limits of the elements of
\* the tuple V of N integers, array_end
IsShortArrayFor(V, h) ==
    /\ Len(h) >= 2 /\ Len(h) - 2 < Len(V.elems)
    /\ h[1].k = "array_begin"
    /\ Last(h).k = "array_end"
    /\ \A i \in 2..(Len(h) - 1) :
          /\ h[i].k \in {"int64", "uint64"}
          /\ numeric_limits_min(V.elems[i - 1]) <= h[i].n
          /\ h[i].n <= numeric_limits_max(V.elems[i - 1])

\* C5: when the array of a tuple of N elements closes after k < N complete
\* elements the call succeeds, the tuple calls its parent's signal_value once
\* and its index is unopened again; no element is written by that call, so
\* elements 0..k-1 hold the values supplied and elements k..N-1 what they
\* held before the array.
C5_TupleUnderflow ==
    /\ [][ClosesEarly =>
            /\ ok' /\ ec' = NoError
            /\ sigs' = <<signal_value>>
            /\ inner_'.inner_active_ = -1
            /\ value' = value]_vars
    /\ [](T = TupleOf(<<Int8, UInt8, Int8>>) /\ IsShortArrayFor(T, hist) =>
            /\ ok /\ sigs = <<signal_value>>
            /\ \A i \in 1..3 :
                  value[i] = IF i <= Len(hist) - 2 THEN hist[i + 1].n
                             ELSE Sample(T)[i])

\* [1, 200] has been converted into a tuple of three that held (5, 5, 5)
C5_Witness ==
    /\ T = TupleOf(<<Int8, UInt8, Int8>>) /\ IsShortArrayFor(T, hist)
    /\ value = <<1, 200, 5>> /\ ok /\ sigs = <<signal_value>>
    /\ inner_.inner_active_ = -1

-----------------------------------------------------------------------------
(* Claims about the enum and the struct handlers. *)

\* the texts of the run of events of kind part that ends h, concatenated
RECURSIVE Fragments(_, _)
Fragments(h, part) ==
    IF h = <<>> \/ Last(h).k # part THEN <<>>
    ELSE Fragments(SubSeq(h, 1, Len(h) - 1), part) \o Last(h).s

\* the text of the string or key that the last event of h completes
Assembled(h, part) == Fragments(SubSeq(h, 1, Len(h) - 1), part) \o Last(h).s

\* the enum handler receives the event: it is the top-level handler, or the
\* element handler of a top-level sequence whose array is open
EnumReceives ==
    \/ T = Enum
    \/ T = SequenceOf(Enum) /\ hist[1].k = "array_begin"
         /\ \A i \in 2..Len(hist) : hist[i].k # "array_end"

\* C9: a string event succeeds, storing the named value and calling the
\* parent's signal_value, exactly when the string_part texts of the current
\* value followed by its own text spell an enumerator, and fails with
\* unknown_name otherwise; for the first value the handler converts and for
\* every later one.
C9_EnumByName ==
    (hist # <<>> /\ ev.k = "string" /\ EnumReceives) =>
        IF enum_from_string(Enum, Assembled(hist, "string_part"))
        THEN ok /\ ec = NoError
        ELSE ~ok /\ ec = unknown_name

\* in ["a", "a"] the second "a" has been refused with unknown_name: the
\* handler compared "aa", the text of both values
C9_Witness ==
    /\ T = SequenceOf(Enum) /\ Len(hist) = 3
    /\ hist[1].k = "array_begin"
    /\ hist[2] = Event("string", 0, <<"a">>)
    /\ hist[3] = Event("string", 0, <<"a">>)
    /\ ~ok /\ ec = unknown_name
    /\ inner_.inner_.name_ = <<"a", "a">>

\* every key_part event of h is followed by a key_part or key event, as the
\* fragments of one key are
KeysWhole(h) ==
    \A i \in 1..(Len(h) - 1) :
        h[i].k = "key_part" => h[i + 1].k \in {"key_part", "key"}

\* key names a member of the struct V
IsMember(V, key) == \E i \in 1..Len(V.names) : V.names[i] = key

\* C10: a key event reaching a struct handler with no member resolved, whose
\* key_part texts and own text spell no member's name, fails with
\* unknown_name, changes no member of the target and leaves the index
\* unresolved.
C10_UnknownKey ==
    [][T.cat = "described_class" /\ ~ended /\ inner_.inner_active_ < 0
         /\ ev'.k = "key" /\ KeysWhole(hist')
         /\ ~IsMember(T, Assembled(hist', "key_part"))
         => /\ FailsWith(unknown_name)
            /\ value' = value
            /\ inner_'.inner_active_ < 0]_vars

\* after one member has been converted, the key "ba" (key_part b, key a) has
\* been refused
C10_Witness ==
    /\ T.cat = "described_class" /\ ev.k = "key" /\ KeysWhole(hist)
    /\ Assembled(hist, "key_part") = <<"b", "a">>
    /\ ~ok /\ ec = unknown_name /\ inner_.inner_active_ < 0
    /\ value[1] = 1 /\ completed = FALSE

-----------------------------------------------------------------------------
(* Claims about the optional handler. *)

\* every string_part event of h is followed by a string_part or string
\* event, as the fragments of one string are
StringsWhole(h) ==
    \A i \in 1..(Len(h) - 1) :
        h[i].k = "string_part" => h[i + 1].k \in {"string_part", "string"}

\* the last event of h completes a scalar that the handler he for the scalar
\* type E accepts
CompletesScalar(E, he, h) ==
    CASE E.cat = "integral" ->
            /\ Last(h).k \in {"int64", "uint64"}
            /\ numeric_limits_min(E) <= Last(h).n /\ Last(h).n <= numeric_limits_max(E)
      [] E.cat = "floating_point" -> Last(h).k \in {"int64", "uint64", "double"}
      [] E.cat = "string_like" -> Last(h).k = "string" /\ StringsWhole(h)
      [] E.cat = "bool" -> Last(h).k = "bool"
      [] E.cat = "described_enum" ->
            Last(h).k = "string" /\ enum_from_string(E, he.name_ \o Last(h).s)
      [] OTHER -> FALSE

\* the scalar of type E that the last event of h completes
ScalarOf(E, he, h) ==
    CASE E.cat = "integral" -> Last(h).n
      [] E.cat = "floating_point" ->
            IF Last(h).k = "double" THEN Last(h).n ELSE 2 * Last(h).n
      [] E.cat = "string_like" -> Assembled(h, "string_part")
      [] E.cat = "bool" -> Last(h).n = 1
      [] E.cat = "described_enum" -> enum_value(E, he.name_ \o Last(h).s)

\* C11: an optional of a scalar that receives null at its own position
\* becomes disengaged, and one that receives an event completing a scalar its
\* element's handler accepts becomes engaged holding that scalar; either way
\* its parent's signal_value is called once.  At the top level the parent is
\* into_handler; in a sequence of optionals it is the sequence, which appends
\* the optional as one more element.
C11_OptionalAbsentPresent ==
    [][/\ (T.cat = "optional" /\ ev'.k = "null" /\ ~inner_.inner_active_) =>
            ok' /\ ec' = NoError /\ value' = <<>> /\ sigs' = <<signal_value>>
       /\ (T.cat = "optional"
             /\ CompletesScalar(T.elems[1], inner_.inner_, hist')) =>
            /\ ok' /\ ec' = NoError /\ sigs' = <<signal_value>>
            /\ value' = <<ScalarOf(T.elems[1], inner_.inner_, hist')>>
       /\ (T.cat = "sequence" /\ inner_.inner_active_ /\ ev'.k = "null"
             /\ ~inner_.inner_.inner_active_) =>
            ok' /\ ec' = NoError /\ value' = Append(value, <<>>) /\ sigs' = <<>>
       /\ (T.cat = "sequence" /\ inner_.inner_active_
             /\ CompletesScalar(T.elems[1].elems[1], inner_.inner_.inner_, hist')) =>
            /\ ok' /\ ec' = NoError /\ sigs' = <<>>
            /\ value' = Append(value,
                    <<ScalarOf(T.elems[1].elems[1], inner_.inner_.inner_, hist')>>)
      ]_vars

\* [1, null, -1] has been converted into an empty sequence of optionals
C11_Witness ==
    /\ T = SequenceOf(OptionalOf(Int8)) /\ Len(hist) = 5
    /\ hist[1].k = "array_begin" /\ hist[5].k = "array_end"
    /\ value = << <<1>>, <<>>, <<-1>> >>
    /\ ok /\ sigs = <<signal_value>>

-----------------------------------------------------------------------------
(* Claims about nested sequences. *)

\* The lists that the events m encode, after the lists out and inside a list
\* or not: [ok |-> whether m is arrays of integers within the limits of V, one
\* after another and each closed, v |-> the lists].
RECURSIVE Decoded(_, _, _, _)
Decoded(V, m, out, inside) ==
    IF m = <<>> THEN [ok |-> ~inside, v |-> out]
    ELSE CASE Head(m).k = "array_begin" /\ ~inside ->
                Decoded(V, Tail(m), Append(out, <<>>), TRUE)
           [] Head(m).k = "array_end" /\ inside ->
                Decoded(V, Tail(m), out, FALSE)
           [] /\ Head(m).k \in {"int64", "uint64"} /\ inside
              /\ numeric_limits_min(V) <= Head(m).n
              /\ Head(m).n <= numeric_limits_max(V) ->
                Decoded(V, Tail(m),
                        [out EXCEPT ![Len(out)] = Append(@, Head(m).n)], TRUE)
           [] OTHER -> [ok |-> FALSE, v |-> out]

\* h is array_begin, the events of any arrays of integers, array_end
IsListOfLists(V, h) ==
    /\ Len(h) >= 2
    /\ h[1].k = "array_begin"
    /\ Last(h).k = "array_end"
    /\ Decoded(V, SubSeq(h, 2, Len(h) - 1), <<>>, FALSE).ok

ListOfLists(V, h) == Decoded(V, SubSeq(h, 2, Len(h) - 1), <<>>, FALSE).v

\* C12: the events of a list of lists of integers, delivered to an empty
\* sequence of sequences of integers, leave it equal to that list of lists;
\* no call fails, and the top-level handler calls into_handler::signal_value
\* in the last call, the closing array_end, and in no call before it.
C12_NestedSequences ==
    /\ [](T = SequenceOf(SequenceOf(Int8)) /\ IsListOfLists(Int8, hist) =>
            /\ ok /\ ec = NoError
            /\ value = ListOfLists(Int8, hist)
            /\ sigs = <<signal_value>>)
    /\ [][T = SequenceOf(SequenceOf(Int8)) /\ IsListOfLists(Int8, hist') =>
            ~completed /\ completed']_vars

\* [[1, -1], []] has been converted
C12_Witness ==
    /\ T = SequenceOf(SequenceOf(Int8)) /\ IsListOfLists(Int8, hist)
    /\ value = << <<1, -1>>, <<>> >> /\ ok /\ sigs = <<signal_value>>

-----------------------------------------------------------------------------
(* Claims about the chain of handlers an event passes through. *)

\* whether the handler for V with members h passes the event e to a child
Forwards(V, h, e) ==
    CASE V.cat \in {"sequence", "map_like"} -> h.inner_active_
      [] V.cat = "tuple" -> h.inner_active_ >= 0 /\ h.inner_active_ < Len(V.elems)
      [] V.cat = "described_class" -> h.inner_active_ >= 0
      [] V.cat = "optional" -> e.k \notin {"array_end", "null"} \/ h.inner_active_
      [] OTHER -> FALSE

\* the child it passes e to: its type, its members and its target
Child(V, h, v) ==
    CASE V.cat \in {"sequence", "map_like"} ->
            [V |-> V.elems[1], h |-> h.inner_, v |-> h.next_value_]
      [] V.cat = "optional" ->
            [V |-> V.elems[1], h |-> h.inner_, v |-> h.inner_value_]
      [] V.cat \in {"tuple", "described_class"} ->
            [V |-> V.elems[h.inner_active_ + 1],
             h |-> h.handlers_[h.inner_active_ + 1],
             v |-> v[h.inner_active_ + 1]]

\* The handlers the event e passes through, from the handler for V down:
\* for each its type V, its members h and its target v before the call, and
\* what its method for e returns, r.
RECURSIVE Chain(_, _, _, _)
Chain(V, h, v, e) ==
    <<[V |-> V, h |-> h, v |-> v, r |-> Handle(V, h, v, e)]>> \o
        (IF Forwards(V, h, e)
         THEN LET c == Child(V, h, v) IN Chain(c.V, c.h, c.v, e)
         ELSE <<>>)

\* C13: a method returns false exactly when it wrote an error, in
\* into_handler and in every handler the event is passed to; and when a
\* handler returns false, the handler that passed it the event, and so every
\* one above it up to into_handler, returns false with the same error.
C13_ErrorPropagation ==
    [][Content =>
        /\ (ok' <=> ec' = NoError)
        /\ inner_active_ =>
            LET hs == Chain(T, inner_, value, ev')
            IN  /\ ok' = hs[1].r.ok /\ ec' = hs[1].r.ec
                /\ \A i \in 1..Len(hs) : hs[i].r.ok <=> hs[i].r.ec = NoError
                /\ \A i \in 1..(Len(hs) - 1) :
                      ~hs[i + 1].r.ok =>
                          ~hs[i].r.ok /\ hs[i].r.ec = hs[i + 1].r.ec]_vars

\* a string inside [[ has failed in the integer handler, two handlers below
\* the top-level one, and into_handler has returned its not_integer
C13_Witness ==
    /\ T = SequenceOf(SequenceOf(Int8)) /\ ev.k = "string" /\ fwd
    /\ inner_.inner_active_ /\ inner_.inner_.inner_active_
    /\ ~ok /\ ec = not_integer

-----------------------------------------------------------------------------
(* Claims about on_document_begin. *)

\* on_document_begin has been called in h, and on_document_end not since
AfterDocumentBegin(h) ==
    \E i \in 1..Len(h) :
        /\ h[i].k = "document_begin"
        /\ \A j \in i..Len(h) : h[j].k # "document_end"

\* C14: on_document_begin returns true and writes no error in every state of
\* into_handler, and a content event delivered after it, with no
\* on_document_end in between, is passed to the top-level handler.
C14_DocumentBeginEnables ==
    [][/\ ev'.k = "document_begin" => ok' /\ ec' = NoError
       /\ (AfterDocumentBegin(hist) /\ Content) => fwd' /\ ec' # extra_data]_vars

\* on_document_end, on_document_begin and a number have been delivered to
\* an integer target, and the number has been refused with extra_data
C14_Witness ==
    /\ T = Int8 /\ Len(hist) = 3
    /\ hist[1].k = "document_end" /\ hist[2].k = "document_begin"
    /\ hist[3].k = "int64"
    /\ ~ok /\ ec = extra_data /\ ~fwd /\ value = 5

-----------------------------------------------------------------------------
(* Claims about one call, in whatever handler it ends. *)

\* C15: a content call that returns false leaves the Target Value as it was
\* and calls signal_value and signal_end on no handler: not on into_handler,
\* and on none of the handlers the event passed through; and none of those
\* handlers has written the value it converts into.
C15_FailureWritesNothing ==
    [][Content /\ ~ok' =>
        /\ ec' \in { not_integer, not_double, not_string, not_bool, not_null,
                     not_exact, unknown_name, not_array, not_object,
                     size_mismatch, extra_data }
        /\ value' = value
        /\ sigs' = <<>>
        /\ inner_active_ =>
            \A i \in 1..Len(Chain(T, inner_, value, ev')) :
                LET l == Chain(T, inner_, value, ev')[i]
                IN  l.r.up = <<>> /\ l.r.v = l.v]_vars

\* in [1, 200 the 200 has been refused by the integer handler of a sequence
\* that holds the 1
C15_Witness ==
    /\ T = SequenceOf(Int8) /\ ev = Event("int64", 200, <<>>)
    /\ ~ok /\ ec = not_exact /\ fwd /\ sigs = <<>>
    /\ value = <<1>> /\ inner_.next_value_ = 0

\* the event is array_end and l is a sequence handler on its path whose own
\* array is open, with no scope open in its element's handler
ClosesSequence(l) ==
    /\ ev'.k = "array_end"
    /\ l.V.cat = "sequence"
    /\ l.h.inner_active_
    /\ NoOpenScope(l.V.elems[1], l.h.inner_)

\* C16 as claimed: a sequence handler that receives the array_end closing
\* its own array calls its parent's signal_end.
C16_SequenceEndSignalsEnd ==
    [][Content /\ inner_active_ =>
        \A i \in 1..Len(Chain(T, inner_, value, ev')) :
            LET l == Chain(T, inner_, value, ev')[i]
            IN  ClosesSequence(l) => l.r.ok /\ l.r.up = <<signal_end>>]_vars

\* C16, amended: ... it returns true, calls its parent's signal_value once
\* and signal_end not at all, is unopened again, and its target is as it was.
C16_SequenceEndSignalsValue ==
    [][Content /\ inner_active_ =>
        \A i \in 1..Len(Chain(T, inner_, value, ev')) :
            LET l == Chain(T, inner_, value, ev')[i]
            IN  ClosesSequence(l) =>
                    /\ l.r.ok /\ l.r.ec = NoError
                    /\ l.r.up = <<signal_value>>
                    /\ ~l.r.h.inner_active_
                    /\ l.r.v = l.v]_vars

\* in [[1] the inner array has closed: the inner sequence is unopened and
\* the outer one, still open, has appended it
C16_Witness ==
    /\ T = SequenceOf(SequenceOf(Int8)) /\ ev.k = "array_end" /\ ok
    /\ inner_.inner_active_ /\ ~inner_.inner_.inner_active_
    /\ value = << <<1>> >> /\ sigs = <<>>

\* C17: a handler that receives array_end with no scope of its own open (a
\* scalar handler; a sequence or map handler whose inner_active_ is false; a
\* tuple or struct handler whose index is -1; an optional handler whose
\* inner_active_ is false) returns true, calls its parent's signal_end once
\* and signal_value not at all, and leaves its target as it was.
C17_ArrayEndOutsideScope ==
    [][Content /\ inner_active_ /\ ev'.k = "array_end" =>
        \A i \in 1..Len(Chain(T, inner_, value, ev')) :
            LET l == Chain(T, inner_, value, ev')[i]
            IN  NoOpenScope(l.V, l.h) =>
                    /\ l.r.ok /\ l.r.ec = NoError
                    /\ l.r.up = <<signal_end>>
                    /\ l.r.v = l.v
                    /\ i = Len(Chain(T, inner_, value, ev'))]_vars

\* in [] the array_end has reached the unresolved struct handler of a
\* sequence of structs, whose signal_end has closed the sequence
C17_Witness ==
    /\ T = SequenceOf(Struct) /\ ev.k = "array_end" /\ ok
    /\ inner_.inner_.inner_active_ = -1 /\ ~inner_.inner_active_
    /\ sigs = <<signal_value>> /\ value = <<>>

\* the events of numbers, strings, bools and null
ValueKinds ==
    { "int64", "uint64", "double", "bool", "null", "string", "string_part",
      "number_part" }

\* the error C18 expects of the handler l for the event kind k, or NoError
\* where it expects none
ShapeError(l, k) ==
    CASE /\ \/ l.V.cat = "sequence" /\ ~l.h.inner_active_
            \/ l.V.cat = "tuple" /\ l.h.inner_active_ < 0
         /\ k \in ValueKinds \cup {"key", "key_part", "object_begin", "object_end"}
            -> not_array
      [] /\ \/ l.V.cat = "map_like" /\ ~l.h.inner_active_
            \/ l.V.cat = "described_class" /\ l.h.inner_active_ < 0
         /\ k \in ValueKinds \cup {"array_begin"}
            -> not_object
      [] OTHER -> NoError

\* C18: a sequence handler whose array is not open and a tuple handler whose
\* index is -1 fail with not_array on every event of a number, string, bool,
\* null, key or object bracket; a map handler with no complete key and a
\* struct handler with no member resolved fail with not_object on every event
\* of a number, string, bool, null or array_begin; they call no parent and
\* their members and target stay as they were.
C18_ShapeErrors ==
    [][Content /\ inner_active_ =>
        \A i \in 1..Len(Chain(T, inner_, value, ev')) :
            LET l == Chain(T, inner_, value, ev')[i]
            IN  ShapeError(l, ev'.k) # NoError =>
                    /\ ~l.r.ok /\ l.r.ec = ShapeError(l, ev'.k)
                    /\ l.r.up = <<>>
                    /\ l.r.h = l.h
                    /\ l.r.v = l.v]_vars

\* in [{ an array_begin has been refused with not_object by the map handler
\* of a sequence of maps
C18_Witness ==
    /\ T = SequenceOf(MapOf(Int8)) /\ ev.k = "array_begin" /\ fwd
    /\ inner_.inner_active_ /\ ~inner_.inner_.inner_active_
    /\ ~ok /\ ec = not_object

-----------------------------------------------------------------------------
(* Claims about the index of the tuple and the struct handlers. *)

\* what the handler of element i (from 0) of the top-level tuple or struct
\* returns for the event of this step
ElementResult(i) ==
    Handle(T.elems[i + 1], inner_.handlers_[i + 1], value[i + 1], ev')

\* the event of this step changes the handler and the value of element i
\* (from 0) as that element's handler does, and of no other element
OnlyElement(i) ==
    /\ inner_'.handlers_[i + 1] = ElementResult(i).h
    /\ value'[i + 1] = ElementResult(i).v
    /\ \A j \in 1..Len(T.elems) :
          j # i + 1 =>
              inner_'.handlers_[j] = inner_.handlers_[j] /\ value'[j] = value[j]

\* C19: the index of a tuple handler of N elements is always -1 (unopened)
\* or in 0..N.  array_begin at -1 sets it to 0.  While it is an i in 0..N-1
\* every event goes to the handler of element i and to no other, and the
\* index becomes i+1 when that handler calls signal_value, -1 when it calls
\* signal_end, and stays i otherwise.  array_end at N calls the parent's
\* signal_value once and sets the index to -1.
C19_TupleIndex ==
    /\ [](T.cat = "tuple" => inner_.inner_active_ \in -1..Len(T.elems))
    /\ [][T.cat = "tuple" =>
            LET i == inner_.inner_active_
                N == Len(T.elems)
            IN  /\ (i = -1 /\ ev'.k = "array_begin") =>
                        ok' /\ inner_'.inner_active_ = 0 /\ value' = value
                /\ (0 <= i /\ i < N) =>
                        /\ OnlyElement(i)
                        /\ ok' = ElementResult(i).ok /\ ec' = ElementResult(i).ec
                        /\ inner_'.inner_active_ =
                              CASE ElementResult(i).up = <<signal_value>> -> i + 1
                                [] ElementResult(i).up = <<signal_end>> -> -1
                                [] ElementResult(i).up = <<>> -> i
                /\ (i = N /\ ev'.k = "array_end") =>
                        /\ ok' /\ ec' = NoError /\ sigs' = <<signal_value>>
                        /\ inner_'.inner_active_ = -1 /\ value' = value]_vars

\* [1, 200, -1] has been converted into a tuple of three and its array closed
C19_Witness ==
    /\ T = TupleOf(<<Int8, UInt8, Int8>>) /\ Len(hist) = 5
    /\ ev.k = "array_end" /\ ok /\ sigs = <<signal_value>>
    /\ inner_.inner_active_ = -1 /\ value = <<1, 200, -1>>

\* the event of this step goes to member i (from 0) of the top-level struct
\* and to no other member, and the struct returns what that member's handler
\* returns
RoutedToMember(i) ==
    /\ OnlyElement(i)
    /\ ok' = ElementResult(i).ok /\ ec' = ElementResult(i).ec

\* the struct handler is ready for the next key
Unresolved(h) == h.inner_active_ = -1 /\ h.key_ = <<>>

\* C20 as stated: while a struct handler has resolved member i, every event
\* goes to the handler of member i and to no other, and the index changes only
\* when that handler calls signal_value, which sets the index to -1 and
\* empties key_.
C20_FieldRouting ==
    [][T.cat = "described_class" /\ inner_.inner_active_ >= 0 =>
        LET i == inner_.inner_active_
        IN  /\ RoutedToMember(i)
            /\ IF ElementResult(i).up = <<signal_value>>
               THEN Unresolved(inner_') /\ sigs' = <<>>
               ELSE /\ inner_'.inner_active_ = i
                    /\ inner_'.key_ = inner_.key_]_vars

\* C20 amended: while a struct handler has resolved member i, every event
\* goes to the handler of member i and to no other; the index and key_ change
\* only when that handler calls signal_value or signal_end, both set the
\* index to -1 and empty key_, and on signal_end the struct also calls its
\* parent's signal_value.
C20_FieldRoutingOrEnd ==
    [][T.cat = "described_class" /\ inner_.inner_active_ >= 0 =>
        LET i == inner_.inner_active_
        IN  /\ RoutedToMember(i)
            /\ CASE ElementResult(i).up = <<signal_value>> ->
                        Unresolved(inner_') /\ sigs' = <<>>
                  [] ElementResult(i).up = <<signal_end>> ->
                        Unresolved(inner_') /\ sigs' = <<signal_value>>
                  [] ElementResult(i).up = <<>> ->
                        /\ inner_'.inner_active_ = i
                        /\ inner_'.key_ = inner_.key_ /\ sigs' = <<>>]_vars

\* {"b": [1]} so far: the events inside member b's array went to member b,
\* and its array_end has left the struct ready for the next key
C20_Witness ==
    /\ T = Struct /\ Len(hist) = 5 /\ hist[2].k = "key" /\ hist[2].s = <<"b">>
    /\ hist[3].k = "array_begin" /\ hist[4].k = "int64"
    /\ ev.k = "array_end" /\ ok /\ Unresolved(inner_)
    /\ value[3] \in { <<1>>, <<5, 1>> } /\ sigs = <<>>

\* C21: object_end reaching a struct handler with no member resolved returns
\* true with no error and calls the parent's signal_value exactly once,
\* whichever members have been converted so far; no member of the target and
\* no member of the handler changes.
C21_RecordCompletion ==
    [][/\ T.cat = "described_class" /\ inner_.inner_active_ < 0
       /\ ev'.k = "object_end"
       => /\ ok' /\ ec' = NoError /\ sigs' = <<signal_value>>
          /\ value' = value /\ inner_' = inner_]_vars

\* {"a": 1} into a struct the caller had filled: the object has ended with
\* only member a converted, and members ab and b are as the caller left them
C21_Witness ==
    /\ T = Struct /\ Len(hist) = 4
    /\ hist[1].k = "object_begin" /\ hist[2].k = "key" /\ hist[3].k = "int64"
    /\ ev.k = "object_end" /\ ok /\ sigs = <<signal_value>> /\ completed
    /\ inner_.inner_active_ < 0
    /\ value = <<1, Sample(StringLike), Sample(SequenceOf(Int8))>>

-----------------------------------------------------------------------------
(* Further claims about the optional handler. *)

\* C22: in every optional handler an event reaches: null with inner_active_
\* true goes to inner_, the optional returns what inner_ returns, and its
\* target changes only if inner_ calls signal_value, to the value inner_
\* converted; null with inner_active_ false is not passed on, empties the
\* target and calls the parent's signal_value; any event other than null and
\* array_end with inner_active_ false goes to inner_, and inner_active_ is
\* true afterwards unless inner_ called signal_value.
C22_OptionalNullRouting ==
    [][Content /\ inner_active_ =>
        LET hs == Chain(T, inner_, value, ev')
        IN  \A i \in 1..Len(hs) :
              hs[i].V.cat = "optional" =>
                /\ (ev'.k = "null" /\ hs[i].h.inner_active_) =>
                      /\ i < Len(hs)
                      /\ hs[i].r.ok = hs[i + 1].r.ok /\ hs[i].r.ec = hs[i + 1].r.ec
                      /\ hs[i].r.h.inner_ = hs[i + 1].r.h
                      /\ hs[i].r.v = IF hs[i + 1].r.up = <<signal_value>>
                                     THEN <<hs[i + 1].r.v>> ELSE hs[i].v
                /\ (ev'.k = "null" /\ ~hs[i].h.inner_active_) =>
                      /\ i = Len(hs)
                      /\ hs[i].r.ok /\ hs[i].r.up = <<signal_value>>
                      /\ hs[i].r.v = <<>> /\ hs[i].r.h = hs[i].h
                /\ (ev'.k \notin {"null", "array_end"} /\ ~hs[i].h.inner_active_) =>
                      /\ i < Len(hs)
                      /\ hs[i].r.ok = hs[i + 1].r.ok /\ hs[i].r.ec = hs[i + 1].r.ec
                      /\ hs[i].r.h.inner_ = hs[i + 1].r.h
                      /\ hs[i].r.h.inner_active_ =
                            (hs[i + 1].r.up # <<signal_value>>)]_vars

\* [null, 1] has been converted into an optional of a sequence of optionals:
\* the null arrived with the outer optional's inner_ active and became the
\* first element, and the outer optional holds the sequence
C22_Witness ==
    /\ T = OptionalOf(SequenceOf(OptionalOf(Int8))) /\ Len(hist) = 4
    /\ hist[1].k = "array_begin" /\ hist[2].k = "null" /\ hist[3].k = "int64"
    /\ ev.k = "array_end" /\ ok /\ sigs = <<signal_value>>
    /\ value = << << <<>>, <<1>> >> >> /\ ~inner_.inner_active_

-----------------------------------------------------------------------------
(* Claims about the callbacks made within one event. *)

\* the events that can complete the value of a scalar target V
Completing(V) ==
    CASE V.cat = "integral" -> {"int64", "uint64"}
      [] V.cat = "floating_point" -> {"int64", "uint64", "double"}
      [] V.cat \in {"string_like", "described_enum"} -> {"string"}
      [] V.cat = "bool" -> {"bool"}
      [] V.cat = "null_like" -> {"null"}

\* C23: a scalar handler an event reaches calls its parent's signal_value
\* once, and nothing else, when the event is one that completes its target
\* and the method returns true; it calls signal_value for no other event, and
\* makes no call on its parent for number_part, string_part or when the
\* method returns false.
C23_ScalarCompletionSignal ==
    [][Content /\ inner_active_ =>
        LET hs == Chain(T, inner_, value, ev')
        IN  \A i \in 1..Len(hs) :
              IsScalar(hs[i].V) =>
                /\ (hs[i].r.ok /\ ev'.k \in Completing(hs[i].V))
                      <=> hs[i].r.up = <<signal_value>>
                /\ ev'.k \in {"number_part", "string_part"} => hs[i].r.up = <<>>
                /\ ~hs[i].r.ok => hs[i].r.up = <<>>]_vars

\* [1, 200] so far into a sequence of 8-bit integers: the element handler
\* has called signal_value for the 1 and not for the 200 it refused
C23_Witness ==
    /\ T = SequenceOf(Int8) /\ value \in { <<1>>, <<5, 1>> }
    /\ ev.k = "int64" /\ ev.n = 200 /\ ~ok /\ ec = not_exact /\ sigs = <<>>
    /\ inner_.inner_active_

\* the members of a tuple or struct handler other than the one at its index
\* are as they were before the call l
OthersUntouched(l) ==
    l.V.cat \in {"tuple", "described_class"} =>
        \A j \in 1..Len(l.V.elems) :
            j # l.h.inner_active_ + 1 =>
                l.r.h.handlers_[j] = l.h.handlers_[j] /\ l.r.v[j] = l.v[j]

\* C24: while one event is handled, every handler it reaches passes it to at
\* most one child, the one its flag or index selects, and no other child
\* changes; and every handler, into_handler included, gets at most one call
\* of signal_value or signal_end from its child.
C24_ReentrancyBound ==
    [][Content /\ inner_active_ =>
        LET hs == Chain(T, inner_, value, ev')
        IN  /\ Len(sigs') <= 1 /\ sigs' = hs[1].r.up
            /\ \A i \in 1..Len(hs) :
                  /\ Len(hs[i].r.up) <= 1
                  /\ OthersUntouched(hs[i])]_vars

\* [[1] so far into a sequence of sequences: the array_end went down to the
\* integer's handler, which called signal_end on the inner sequence, which
\* called signal_value on the outer one, which called nothing
C24_Witness ==
    /\ T = SequenceOf(SequenceOf(Int8)) /\ ev.k = "array_end" /\ fwd /\ ok
    /\ sigs = <<>> /\ inner_.inner_active_ /\ ~inner_.inner_.inner_active_
    /\ value \in { << <<1>> >>, << <<5>>, <<1>> >> }

-----------------------------------------------------------------------------
(* Claims about into_handler's comment methods. *)

\* C25: on_comment_part and on_comment return true with no error whatever
\* into_handler's state, before and after on_document_begin and
\* on_document_end and while a value is being converted; they are not passed
\* to the top-level handler, and inner_active_, the handlers' members and the
\* target are unchanged.
C25_CommentsIgnored ==
    [][ev'.k \in {"comment_part", "comment"} =>
        /\ ok' /\ ec' = NoError /\ ~fwd' /\ sigs' = <<>>
        /\ UNCHANGED <<inner_active_, inner_, value, completed>>]_vars

\* a bool has been converted and the document has ended: the comment after
\* it is accepted, where a content event would fail with extra_data
C25_Witness ==
    /\ T = Bool /\ completed /\ ended /\ ~inner_active_
    /\ ev.k = "comment" /\ ok /\ ec = NoError /\ ~fwd

-----------------------------------------------------------------------------
(* Claims about a handler that converts one value after another. *)

\* Whether the events s, read inside the open arrays ("A"), objects awaiting
\* a key ("O") and objects awaiting a member's value ("V") of open, innermost
\* last, are what a JSON parser emits up to the end of the outermost of them;
\* with open empty: for exactly one value.  started: a value has begun.
RECURSIVE Emitted(_, _, _)
Emitted(s, open, started) ==
    IF s = <<>> THEN started /\ open = <<>>
    ELSE IF started /\ open = <<>> THEN FALSE
    ELSE LET k == Head(s).k
             n == Len(open)
             top == IF n = 0 THEN "none" ELSE open[n]
             \* the stack once a value has ended here
             ended_ == IF top = "V" THEN [open EXCEPT ![n] = "O"] ELSE open
         IN  CASE k \in {"int64", "uint64", "double", "bool", "null", "string"} ->
                     top # "O" /\ Emitted(Tail(s), ended_, TRUE)
               [] k = "array_begin" ->
                     top # "O" /\ Emitted(Tail(s), Append(ended_, "A"), TRUE)
               [] k = "object_begin" ->
                     top # "O" /\ Emitted(Tail(s), Append(ended_, "O"), TRUE)
               [] k = "array_end" ->
                     top = "A" /\ Emitted(Tail(s), SubSeq(open, 1, n - 1), TRUE)
               [] k = "object_end" ->
                     top = "O" /\ Emitted(Tail(s), SubSeq(open, 1, n - 1), TRUE)
               [] k = "key" ->
                     top = "O" /\ Emitted(Tail(s), [open EXCEPT ![n] = "V"], TRUE)
               [] OTHER -> FALSE

\* the events s are those of exactly one JSON value
OneValue(s) == Emitted(s, <<>>, FALSE)

\* hist is the opening of an array and then exactly one element
OneElement == hist # <<>> /\ hist[1].k = "array_begin" /\ OneValue(Tail(hist))

\* hist is the opening of an array and then exactly two elements, the second
\* one starting at event p
TwoElements(p) ==
    /\ hist[1].k = "array_begin"
    /\ OneValue(SubSeq(hist, 2, p - 1))
    /\ OneValue(SubSeq(hist, p, Len(hist)))

\* the control state of the handler for V with members h is as its
\* constructor leaves it
Quiescent(V, h) ==
    CASE V.cat = "sequence" ->
            ~h.inner_active_ /\ h.next_value_ = Default(V.elems[1])
      [] V.cat = "map_like" ->
            /\ ~h.inner_active_ /\ h.key_ = <<>>
            /\ h.next_value_ = Default(V.elems[1])
      [] V.cat = "tuple" -> h.inner_active_ = -1
      [] V.cat = "described_class" -> h.inner_active_ = -1 /\ h.key_ = <<>>
      [] V.cat = "optional" -> ~h.inner_active_

\* the target of a handler for V, new and with a value-initialised target,
\* after the events s
RECURSIVE Converted(_, _, _, _)
Converted(V, h, v, s) ==
    IF s = <<>> THEN v
    ELSE Converted(V, Handle(V, h, v, Head(s)).h, Handle(V, h, v, Head(s)).v, Tail(s))

\* After the events of one value, or of an array opening and one or two
\* elements, all accepted, the handler that converted the value has the
\* control state it was constructed with.
C26_ControlStateRestored ==
    ok =>
        /\ OneValue(hist) => Quiescent(T, inner_)
        /\ (OneElement \/ \E p \in 3..Len(hist) : TwoElements(p)) =>
              Quiescent(T.elems[1], inner_.inner_)

\* C26: once a sequence, map, tuple, struct or optional handler has converted
\* the events of one value, its control state is the one it was constructed
\* with, and so the next value the same handler converts is what a new
\* handler with a value-initialised target converts from the same events.
C26_Quiescence ==
    /\ C26_ControlStateRestored
    /\ ok =>
         \A p \in 3..Len(hist) :
            TwoElements(p) =>
                /\ Len(value) = 2
                /\ value[2] = Converted(T.elems[1], Handler(T.elems[1]),
                                        Default(T.elems[1]),
                                        SubSeq(hist, p, Len(hist)))

\* [{"a": 1}, {}] so far into a sequence of optional structs: the second
\* element has a = 1, left in the optional's inner_value_ by the first
C26_Witness ==
    /\ T = SequenceOf(OptionalOf(Struct)) /\ ok /\ Len(hist) = 7
    /\ TwoElements(6) /\ hist[3].k = "key" /\ hist[4].k = "int64"
    /\ value = << << <<1, <<>>, <<>>>> >>, << <<1, <<>>, <<>>>> >> >>
    /\ Quiescent(T.elems[1], inner_.inner_)

-----------------------------------------------------------------------------
(* Claims about what a target holds before it is converted into. *)

\* hist is { and then the events after: a key and the events of a value, the
\* same key again and the events of a second value short of its last
MemberTwice(key, first, second) ==
    /\ Len(hist) = 1 + Len(first) + Len(second)
    /\ hist[1].k = "object_begin"
    /\ \A i \in 1..Len(hist) - 1 :
          LET want == (first \o second)[i]
          IN  /\ hist[i + 1].k = want
              /\ want = "key" => hist[i + 1].s = key

\* C27: a string handler an event reaches appends the text of string_part
\* and string to its target, and a sequence handler appends the element its
\* inner_ completed, to whatever the target held; neither empties it, at
\* array_begin or anywhere else.  So the second string under the key of a
\* struct's string member leaves the member holding what it held, the first
\* string and the second, and the elements of a second array under the key of
\* a sequence member follow those of the first.
C27_Accumulation ==
    [][Content /\ inner_active_ =>
        LET hs == Chain(T, inner_, value, ev')
        IN  /\ \A i \in 1..Len(hs) :
                  /\ hs[i].V.cat = "string_like" =>
                        hs[i].r.v = IF ev'.k \in {"string_part", "string"}
                                    THEN hs[i].v \o ev'.s ELSE hs[i].v
                  /\ hs[i].V.cat = "sequence" =>
                        hs[i].r.v = IF i < Len(hs) /\ hs[i + 1].r.up = <<signal_value>>
                                    THEN Append(hs[i].v, hs[i + 1].r.v) ELSE hs[i].v
            /\ (MemberTwice(<<"a">>, <<"key", "string">>, <<"key">>) /\ ev'.k = "string") =>
                  /\ ok'
                  /\ \E was \in AnyValue(StringLike) :
                        value'[1] = was \o hist[3].s \o ev'.s
            /\ (/\ MemberTwice(<<"b">>, <<"key", "array_begin", "int64", "array_end">>,
                                <<"key", "array_begin">>)
                /\ ev'.k = "int64") =>
                  /\ ok'
                  /\ \E was \in AnyValue(SequenceOf(Int8)) :
                        value'[2] = was \o <<hist[4].n, ev'.n>>]_vars

\* {"a": "a", "a": "b" so far into a struct the caller had filled: member a
\* holds the caller's b and then both strings
C27_Witness ==
    /\ T = StringAndSequence /\ Len(hist) = 5 /\ ok /\ ev.k = "string"
    /\ hist[1].k = "object_begin" /\ hist[2].k = "key" /\ hist[3].k = "string"
    /\ hist[4].k = "key" /\ value[1] = <<"b", "a", "b">>

=============================================================================
